---------------------------- MODULE Spec2Model ----------------------------
(***************************************************************************)
(* Model of the PDF-to-images function (src/src/handler.py) together with  *)
(* the event builder of its local harness (src/tests/local_invoke.py).     *)
(*                                                                         *)
(* Text is modelled as it is processed: a Python str is a sequence of code *)
(* points, a Python bytes object a sequence of integers 0..255.  A Python  *)
(* value is a record [t, v]: t is its type name and v a sequence holding   *)
(* its content.                                                            *)
(***************************************************************************)
EXTENDS Integers, Sequences, FiniteSets, TLC

-----------------------------------------------------------------------------
(* Characters.                                                             *)

\* The printable ASCII characters, code points 32..126, in order (code point 96
\* stands under a name: the grave accent cannot be written in a string here).
Ascii ==
  << " ", "!", "\"", "#", "$", "%", "&", "'", "(", ")", "*", "+", ",", "-", ".", "/",
     "0", "1", "2", "3", "4", "5", "6", "7", "8", "9", ":", ";", "<", "=", ">", "?",
     "@", "A", "B", "C", "D", "E", "F", "G", "H", "I", "J", "K", "L", "M", "N", "O",
     "P", "Q", "R", "S", "T", "U", "V", "W", "X", "Y", "Z", "[", "\\", "]", "^", "_",
     "GRAVE", "a", "b", "c", "d", "e", "f", "g", "h", "i", "j", "k", "l", "m", "n", "o",
     "p", "q", "r", "s", "t", "u", "v", "w", "x", "y", "z", "{", "|", "}", "~" >>

\* Code point of a printable ASCII character.
Ord(c) == 31 + (CHOOSE n \in 1..Len(Ascii) : Ascii[n] = c)

\* A str literal, written as its characters.
Str(cs) == [n \in 1..Len(cs) |-> Ord(cs[n])]

\* s[i], or -1 past either end.
At(s, i) == IF i \in 1..Len(s) THEN s[i] ELSE -1

\* s[i:] of Python, i counted from 1.
From(s, i) == IF i > Len(s) THEN << >> ELSE SubSeq(s, i, Len(s))

\* str.startswith / str.endswith
startswith(s, p) == Len(p) <= Len(s) /\ SubSeq(s, 1, Len(p)) = p
endswith(s, p) == Len(p) <= Len(s) /\ SubSeq(s, Len(s) - Len(p) + 1, Len(s)) = p

-----------------------------------------------------------------------------
(* Python values.                                                          *)

PyNone == [t |-> "none", v |-> << >>]
PyStr(s) == [t |-> "str", v |-> s]
PyBytes(b) == [t |-> "bytes", v |-> b]
PyInt(n) == [t |-> "int", v |-> <<n>>]
PyBool(b) == [t |-> "bool", v |-> <<IF b THEN 1 ELSE 0>>]
PyList(items) == [t |-> "list", v |-> items]
\* A dict is the sequence of its <<key, value>> items, keys being str contents.
PyDict(items) == [t |-> "dict", v |-> items]

\* key in d
HasKey(d, k) == \E n \in 1..Len(d.v) : d.v[n][1] = k

\* d.get(k): the value stored last under k, None when there is none.
DictGet(d, k) ==
  IF HasKey(d, k)
    THEN LET n == CHOOSE m \in 1..Len(d.v) :
                    d.v[m][1] = k /\ \A j \in (m + 1)..Len(d.v) : d.v[j][1] # k
         IN d.v[n][2]
    ELSE PyNone

-----------------------------------------------------------------------------
(* bytes.decode("utf-8") and str.encode("utf-8").                          *)

\* The result of a conversion that can raise: ok, and the value when ok.
Raised == [ok |-> FALSE, val |-> PyNone]
Returned(val) == [ok |-> TRUE, val |-> val]

IsCont(b) == b \in 128..191

\* Number of bytes of the UTF-8 sequence starting at b[i], 0 when ill-formed.
Utf8Width(b, i) ==
  LET c == b[i] c2 == At(b, i + 1) c3 == At(b, i + 2) c4 == At(b, i + 3) IN
  CASE c \in 0..127 -> 1
    [] c \in 194..223 -> IF IsCont(c2) THEN 2 ELSE 0
    [] c = 224 -> IF c2 \in 160..191 /\ IsCont(c3) THEN 3 ELSE 0
    [] c \in (225..236) \cup {238, 239} -> IF IsCont(c2) /\ IsCont(c3) THEN 3 ELSE 0
    [] c = 237 -> IF c2 \in 128..159 /\ IsCont(c3) THEN 3 ELSE 0
    [] c = 240 -> IF c2 \in 144..191 /\ IsCont(c3) /\ IsCont(c4) THEN 4 ELSE 0
    [] c \in 241..243 -> IF IsCont(c2) /\ IsCont(c3) /\ IsCont(c4) THEN 4 ELSE 0
    [] c = 244 -> IF c2 \in 128..143 /\ IsCont(c3) /\ IsCont(c4) THEN 4 ELSE 0
    [] OTHER -> 0

\* The code point of the well-formed sequence of w bytes starting at b[i].
Utf8Point(b, i, w) ==
  CASE w = 1 -> b[i]
    [] w = 2 -> (b[i] % 32) * 64 + (b[i + 1] % 64)
    [] w = 3 -> (b[i] % 16) * 4096 + (b[i + 1] % 64) * 64 + (b[i + 2] % 64)
    [] OTHER -> (b[i] % 8) * 262144 + (b[i + 1] % 64) * 4096
                  + (b[i + 2] % 64) * 64 + (b[i + 3] % 64)

RECURSIVE Utf8DecodeFrom(_, _, _)
Utf8DecodeFrom(b, i, acc) ==
  IF i > Len(b) THEN Returned(PyStr(acc))
  ELSE IF Utf8Width(b, i) = 0 THEN Raised
  ELSE Utf8DecodeFrom(b, i + Utf8Width(b, i),
                      Append(acc, Utf8Point(b, i, Utf8Width(b, i))))

\* b.decode("utf-8"): the str, or UnicodeDecodeError.
utf8_decode(b) == Utf8DecodeFrom(b, 1, << >>)

\* The UTF-8 bytes of one code point (surrogates cannot be encoded).
Utf8Bytes(c) ==
  CASE c < 128 -> <<c>>
    [] c < 2048 -> <<192 + (c \div 64), 128 + (c % 64)>>
    [] c < 65536 -> <<224 + (c \div 4096), 128 + ((c \div 64) % 64), 128 + (c % 64)>>
    [] OTHER -> <<240 + (c \div 262144), 128 + ((c \div 4096) % 64),
                  128 + ((c \div 64) % 64), 128 + (c % 64)>>

RECURSIVE utf8_encode(_)
\* s.encode("utf-8")
utf8_encode(s) ==
  IF s = << >> THEN << >> ELSE Utf8Bytes(Head(s)) \o utf8_encode(Tail(s))

-----------------------------------------------------------------------------
(* base64.b64encode and base64.b64decode.                                  *)

B64Pad == Ord("=")

\* The character of a 6-bit value: A-Z, a-z, 0-9, + and /.
B64Char(n) ==
  CASE n < 26 -> 65 + n
    [] n < 52 -> 71 + n
    [] n < 62 -> n - 4
    [] n = 62 -> 43
    [] OTHER -> 47

\* The 6-bit value of a character, 64 when it is not of the alphabet.
B64Value(c) ==
  CASE c \in 65..90 -> c - 65
    [] c \in 97..122 -> c - 71
    [] c \in 48..57 -> c + 4
    [] c = 43 -> 62
    [] c = 47 -> 63
    [] OTHER -> 64

RECURSIVE b64encode(_)
\* base64.b64encode(b), as the ASCII characters of its result.
b64encode(b) ==
  CASE Len(b) = 0 -> << >>
    [] Len(b) = 1 ->
         <<B64Char(b[1] \div 4), B64Char((b[1] % 4) * 16), B64Pad, B64Pad>>
    [] Len(b) = 2 ->
         <<B64Char(b[1] \div 4), B64Char((b[1] % 4) * 16 + (b[2] \div 16)),
           B64Char((b[2] % 16) * 4), B64Pad>>
    [] OTHER ->
         <<B64Char(b[1] \div 4), B64Char((b[1] % 4) * 16 + (b[2] \div 16)),
           B64Char((b[2] % 16) * 4 + (b[3] \div 64)), B64Char(b[3] % 64)>>
           \o b64encode(From(b, 4))

\* binascii.a2b_base64 (not strict) keeps, while it reads: the position in the
\* quad, the bits left over, the pad characters seen in a row, the bytes
\* produced, and whether the end of the data has been met.
B64Start == [quad |-> 0, left |-> 0, pads |-> 0, out |-> << >>, done |-> FALSE]

\* A character of the alphabet, of value n.
B64Data(st, n) ==
  CASE st.quad = 0 -> [st EXCEPT !.pads = 0, !.quad = 1, !.left = n]
    [] st.quad = 1 -> [st EXCEPT !.pads = 0, !.quad = 2, !.left = n % 16,
                                 !.out = Append(@, st.left * 4 + (n \div 16))]
    [] st.quad = 2 -> [st EXCEPT !.pads = 0, !.quad = 3, !.left = n % 4,
                                 !.out = Append(@, st.left * 16 + (n \div 4))]
    [] OTHER -> [st EXCEPT !.pads = 0, !.quad = 0, !.left = 0,
                           !.out = Append(@, st.left * 64 + n)]

\* One character c: a pad ends the data once the quad is complete with it,
\* and a character outside the alphabet is passed over.
B64Step(st, c) ==
  IF c = B64Pad
    THEN IF st.quad >= 2 /\ st.quad + st.pads + 1 >= 4
           THEN [st EXCEPT !.pads = @ + 1, !.done = TRUE, !.quad = 0]
           ELSE IF st.quad >= 2 THEN [st EXCEPT !.pads = @ + 1] ELSE st
  ELSE IF B64Value(c) >= 64 THEN st
  ELSE B64Data(st, B64Value(c))

RECURSIVE B64Run(_, _, _)
B64Run(st, s, i) ==
  IF st.done \/ i > Len(s) THEN st ELSE B64Run(B64Step(st, s[i]), s, i + 1)

\* The bytes read, or binascii.Error when the last quad is cut short.
B64Result(st) == IF st.quad # 0 THEN Raised ELSE Returned(PyBytes(st.out))

\* base64.b64decode(x) for a Python value x: bytes, or an exception (TypeError
\* for a value that is neither str nor bytes, ValueError for a str with a
\* character outside ASCII, binascii.Error).
b64decode(x) ==
  IF x.t \notin {"str", "bytes"} THEN Raised
  ELSE IF x.t = "str" /\ \E n \in 1..Len(x.v) : x.v[n] > 127 THEN Raised
  ELSE B64Result(B64Run(B64Start, x.v, 1))

-----------------------------------------------------------------------------
(* json.dumps(..., ensure_ascii=False) and json.loads.  Numbers are the    *)
(* integers, and of the escapes \uXXXX is not modelled: no text the model  *)
(* draws holds a fraction, an exponent or a \u escape.                     *)

QUOTE == Ord("\"")
BACKSLASH == Ord("\\")
SLASH == Ord("/")
COLON == Ord(":")
COMMA == Ord(",")
MINUS == Ord("-")
PLUS == Ord("+")
UNDERSCORE == Ord("_")
LBRACE == Ord("{")
RBRACE == Ord("}")
LBRACKET == Ord("[")
RBRACKET == Ord("]")
DIGIT0 == Ord("0")
DIGIT9 == Ord("9")
LETTER_b == Ord("b")
LETTER_f == Ord("f")
LETTER_n == Ord("n")
LETTER_r == Ord("r")
LETTER_t == Ord("t")
S_null == Str(<<"n", "u", "l", "l">>)
S_true == Str(<<"t", "r", "u", "e">>)
S_false == Str(<<"f", "a", "l", "s", "e">>)
S_slash == Str(<<"/">>)
S_colon_space == Str(<<":", " ">>)
S_comma_space == Str(<<",", " ">>)

\* The escape letter json writes after a backslash for code point c, 0 if none.
EscapeLetter(c) ==
  CASE c = QUOTE -> QUOTE
    [] c = BACKSLASH -> BACKSLASH
    [] c = 10 -> LETTER_n
    [] c = 13 -> LETTER_r
    [] c = 9 -> LETTER_t
    [] c = 8 -> LETTER_b
    [] c = 12 -> LETTER_f
    [] OTHER -> 0

\* The code point json reads for escape letter e, -1 if e is no escape letter.
EscapedPoint(e) ==
  CASE e = QUOTE -> QUOTE
    [] e = BACKSLASH -> BACKSLASH
    [] e = SLASH -> SLASH
    [] e = LETTER_n -> 10
    [] e = LETTER_r -> 13
    [] e = LETTER_t -> 9
    [] e = LETTER_b -> 8
    [] e = LETTER_f -> 12
    [] OTHER -> -1

RECURSIVE JsonEscape(_)
JsonEscape(s) ==
  IF s = << >> THEN << >>
  ELSE (IF EscapeLetter(Head(s)) # 0 THEN <<BACKSLASH, EscapeLetter(Head(s))>>
        ELSE <<Head(s)>>) \o JsonEscape(Tail(s))

\* json.dumps of a str.
JsonDumpsStr(s) == <<QUOTE>> \o JsonEscape(s) \o <<QUOTE>>

RECURSIVE JsonDumpsItems(_)
\* The items of a dict of str values, joined as json.dumps joins them.
JsonDumpsItems(items) ==
  IF items = << >> THEN << >>
  ELSE JsonDumpsStr(items[1][1]) \o S_colon_space \o JsonDumpsStr(items[1][2].v)
         \o (IF Len(items) > 1 THEN S_comma_space ELSE << >>)
         \o JsonDumpsItems(Tail(items))

\* json.dumps(d, ensure_ascii=False) for a dict d whose values are str.
json_dumps(d) == <<LBRACE>> \o JsonDumpsItems(d.v) \o <<RBRACE>>

\* A parse: ok, the value read, and the position after it.
NoParse == [ok |-> FALSE, val |-> PyNone, pos |-> 0]
Parsed(val, pos) == [ok |-> TRUE, val |-> val, pos |-> pos]

IsDigit(c) == c \in DIGIT0..DIGIT9

RECURSIVE SkipWs(_, _)
\* The first position from i on that holds no JSON whitespace.
SkipWs(s, i) == IF At(s, i) \in {32, 9, 10, 13} THEN SkipWs(s, i + 1) ELSE i

RECURSIVE ScanString(_, _, _)
\* The string whose opening quote is just before position i.
ScanString(s, i, acc) ==
  CASE At(s, i) = -1 -> NoParse
    [] At(s, i) = QUOTE -> Parsed(PyStr(acc), i + 1)
    [] At(s, i) = BACKSLASH ->
         IF EscapedPoint(At(s, i + 1)) = -1 THEN NoParse
         ELSE ScanString(s, i + 2, Append(acc, EscapedPoint(At(s, i + 1))))
    [] At(s, i) \in 0..31 -> NoParse
    [] OTHER -> ScanString(s, i + 1, Append(acc, At(s, i)))

RECURSIVE ScanDigits(_, _, _)
\* The digits from position i on, as a number continuing n.
ScanDigits(s, i, n) ==
  IF IsDigit(At(s, i)) THEN ScanDigits(s, i + 1, 10 * n + (At(s, i) - DIGIT0))
  ELSE [val |-> n, pos |-> i]

\* (0|[1-9][0-9]*) at position j, negated when neg.
ScanUnsigned(s, j, neg) ==
  IF ~IsDigit(At(s, j)) THEN NoParse
  ELSE IF At(s, j) = DIGIT0 THEN Parsed(PyInt(0), j + 1)
  ELSE Parsed(PyInt(IF neg THEN 0 - ScanDigits(s, j, 0).val ELSE ScanDigits(s, j, 0).val),
              ScanDigits(s, j, 0).pos)

\* -?(0|[1-9][0-9]*) at position i.
ScanNumber(s, i) ==
  IF At(s, i) = MINUS THEN ScanUnsigned(s, i + 1, TRUE) ELSE ScanUnsigned(s, i, FALSE)

\* The literal word at position i.
ScanWord(s, i, word, val) ==
  IF startswith(From(s, i), word) THEN Parsed(val, i + Len(word)) ELSE NoParse

RECURSIVE ParseValue(_, _)
RECURSIVE ParseItems(_, _, _)
RECURSIVE AfterKey(_, _, _)
RECURSIVE AfterItemValue(_, _, _, _)
RECURSIVE NextItem(_, _, _)
RECURSIVE ParseElements(_, _, _)
RECURSIVE NextElement(_, _, _)

\* The JSON value starting at position i.
ParseValue(s, i) ==
  CASE At(s, i) = QUOTE -> ScanString(s, i + 1, << >>)
    [] At(s, i) = LBRACE ->
         IF At(s, SkipWs(s, i + 1)) = RBRACE
           THEN Parsed(PyDict(<< >>), SkipWs(s, i + 1) + 1)
           ELSE ParseItems(s, SkipWs(s, i + 1), << >>)
    [] At(s, i) = LBRACKET ->
         IF At(s, SkipWs(s, i + 1)) = RBRACKET
           THEN Parsed(PyList(<< >>), SkipWs(s, i + 1) + 1)
           ELSE ParseElements(s, SkipWs(s, i + 1), << >>)
    [] At(s, i) = MINUS \/ IsDigit(At(s, i)) -> ScanNumber(s, i)
    [] At(s, i) = LETTER_n -> ScanWord(s, i, S_null, PyNone)
    [] At(s, i) = LETTER_t -> ScanWord(s, i, S_true, PyBool(TRUE))
    [] At(s, i) = LETTER_f -> ScanWord(s, i, S_false, PyBool(FALSE))
    [] OTHER -> NoParse

\* The items of an object from position i (a key's opening quote) on.
ParseItems(s, i, acc) ==
  IF At(s, i) # QUOTE THEN NoParse ELSE AfterKey(s, ScanString(s, i + 1, << >>), acc)

\* After the key k: the colon and the value.
AfterKey(s, k, acc) ==
  IF ~k.ok THEN NoParse
  ELSE IF At(s, SkipWs(s, k.pos)) # COLON THEN NoParse
  ELSE AfterItemValue(s, k.val.v, ParseValue(s, SkipWs(s, SkipWs(s, k.pos) + 1)), acc)

\* After the value x of key: the item joins those read.
AfterItemValue(s, key, x, acc) ==
  IF ~x.ok THEN NoParse ELSE NextItem(s, SkipWs(s, x.pos), Append(acc, <<key, x.val>>))

\* At position m after an item: the end of the object, or a comma and more.
NextItem(s, m, items) ==
  CASE At(s, m) = RBRACE -> Parsed(PyDict(items), m + 1)
    [] At(s, m) = COMMA -> ParseItems(s, SkipWs(s, m + 1), items)
    [] OTHER -> NoParse

\* The elements of an array from position i on.
ParseElements(s, i, acc) == NextElement(s, ParseValue(s, i), acc)

\* After the element x: the end of the array, or a comma and more.
NextElement(s, x, acc) ==
  IF ~x.ok THEN NoParse
  ELSE CASE At(s, SkipWs(s, x.pos)) = RBRACKET ->
              Parsed(PyList(Append(acc, x.val)), SkipWs(s, x.pos) + 1)
         [] At(s, SkipWs(s, x.pos)) = COMMA ->
              ParseElements(s, SkipWs(s, SkipWs(s, x.pos) + 1), Append(acc, x.val))
         [] OTHER -> NoParse

\* The value x read from s when nothing but whitespace follows it.
WholeText(s, x) ==
  IF x.ok /\ SkipWs(s, x.pos) = Len(s) + 1 THEN Returned(x.val) ELSE Raised

\* json.loads(s): the value, or JSONDecodeError (also for text after the value).
json_loads(s) == WholeText(s, ParseValue(s, SkipWs(s, 1)))

-----------------------------------------------------------------------------
(* The event parser (handler.py) and the event builder of the harness.     *)

K_pdf_key == Str(<<"p", "d", "f", "_", "k", "e", "y">>)
K_output_prefix ==
  Str(<<"o", "u", "t", "p", "u", "t", "_", "p", "r", "e", "f", "i", "x">>)
K_body == Str(<<"b", "o", "d", "y">>)
K_isBase64Encoded ==
  Str(<<"i", "s", "B", "a", "s", "e", "6", "4", "E", "n", "c", "o", "d", "e", "d">>)

\* What a call ends with: the exception class raised ("none" when it returns)
\* and, for parse_event, the pair returned.
ParseRaise(cls) == [exc |-> cls, pdf_key |-> << >>, output_prefix |-> << >>]
ParseReturn(k, p) == [exc |-> "none", pdf_key |-> k, output_prefix |-> p]

\* x is a non-empty str.
NonEmptyStr(x) == x.t = "str" /\ x.v # << >>

\* The three checks of parse_event on the two fields.
ValidateFields(pdf_key, output_prefix) ==
  IF ~NonEmptyStr(pdf_key) THEN ParseRaise("BadRequest")
  ELSE IF ~NonEmptyStr(output_prefix) THEN ParseRaise("BadRequest")
  ELSE IF ~endswith(output_prefix.v, S_slash) THEN ParseRaise("BadRequest")
  ELSE ParseReturn(pdf_key.v, output_prefix.v)

\* x.strip() for a str x, x itself otherwise.
Stripped(x) == IF x.t = "str" THEN PyStr(SelectSeq(x.v, LAMBDA c : c # 32)) ELSE x

\* The same checks made on the fields stripped of blanks: what a parser that
\* normalised its fields would return.
ValidatePayloadStripping(payload) ==
  IF payload.t # "dict" THEN ParseRaise("AttributeError")
  ELSE ValidateFields(Stripped(DictGet(payload, K_pdf_key)),
                      Stripped(DictGet(payload, K_output_prefix)))

\* parse_event from "pdf_key = payload.get(...)" on: payload.get is an
\* attribute only a dict has (of the values json.loads returns).
ValidatePayload(payload) ==
  IF payload.t # "dict" THEN ParseRaise("AttributeError")
  ELSE ValidateFields(DictGet(payload, K_pdf_key), DictGet(payload, K_output_prefix))

\* base64.b64decode(body).decode("utf-8"): not ok when either raises.
DecodeBytes(b) == IF b.ok THEN utf8_decode(b.val.v) ELSE Raised
DecodeBase64(body) == DecodeBytes(b64decode(body))

\* The two isinstance tests on the body: bytes are decoded, and what is then
\* no str is refused (not ok is BadRequest).
AsText(body) ==
  IF ~body.ok THEN Raised
  ELSE IF body.val.t = "bytes" THEN utf8_decode(body.val.v)
  ELSE IF body.val.t # "str" THEN Raised
  ELSE body

\* The body of an HTTP-style event as text.
BodyText(event) ==
  IF DictGet(event, K_body).t = "none" THEN Raised
  ELSE AsText(IF DictGet(event, K_isBase64Encoded) = PyBool(TRUE)
                THEN DecodeBase64(DictGet(event, K_body))
                ELSE Returned(DictGet(event, K_body)))

\* json.loads of the body, then the checks on the payload.
LoadedPayload(payload) ==
  IF ~payload.ok THEN ParseRaise("BadRequest") ELSE ValidatePayload(payload.val)
PayloadOfText(text) ==
  IF ~text.ok THEN ParseRaise("BadRequest") ELSE LoadedPayload(json_loads(text.val.v))

parse_event(event) ==
  IF event.t # "dict" THEN ParseRaise("BadRequest")
  ELSE IF HasKey(event, K_pdf_key) /\ HasKey(event, K_output_prefix)
    THEN ValidatePayload(event)
  ELSE IF HasKey(event, K_body) THEN PayloadOfText(BodyText(event))
  ELSE ParseRaise("BadRequest")

\* build_event of the harness.
build_event(pdf_key, output_prefix, http_event, use_base64) ==
  IF ~http_event
    THEN PyDict(<< <<K_pdf_key, PyStr(pdf_key)>>,
                   <<K_output_prefix, PyStr(output_prefix)>> >>)
    ELSE LET text == json_dumps(PyDict(<< <<K_pdf_key, PyStr(pdf_key)>>,
                                          <<K_output_prefix, PyStr(output_prefix)>> >>))
             body == IF use_base64 THEN b64encode(utf8_encode(text)) ELSE text
         IN PyDict(<< <<K_body, PyStr(body)>>,
                      <<K_isBase64Encoded, PyBool(use_base64)>> >>)

-----------------------------------------------------------------------------
(* Object keys and the scan for the pages a prefix already holds.          *)

RECURSIVE Decimal(_)
\* str(n) for n >= 0, as the f-string of the page key writes it.
Decimal(n) ==
  IF n < 10 THEN <<DIGIT0 + n>> ELSE Decimal(n \div 10) \o <<DIGIT0 + (n % 10)>>

S_page == Str(<<"p", "a", "g", "e", "-">>)
S_webp == Str(<<".", "w", "e", "b", "p">>)
S_png == Str(<<".", "p", "n", "g">>)
S_manifest == Str(<<"m", "a", "n", "i", "f", "e", "s", "t", ".", "j", "s", "o", "n">>)

\* f"{output_prefix}page-{page_num}.webp"
PageKey(output_prefix, page_num) ==
  output_prefix \o S_page \o Decimal(page_num) \o S_webp

\* f"{output_prefix}manifest.json"
ManifestKey(output_prefix) == output_prefix \o S_manifest

RECURSIVE LastSegment(_)
\* key.split("/")[-1]
LastSegment(key) ==
  IF \E n \in 1..Len(key) : key[n] = SLASH
    THEN LastSegment(From(key, 1 + CHOOSE n \in 1..Len(key) : key[n] = SLASH))
    ELSE key

IsSpace(c) == c \in {32, 9, 10, 11, 12, 13}

RECURSIVE StripLeft(_)
StripLeft(s) == IF s # << >> /\ IsSpace(s[1]) THEN StripLeft(Tail(s)) ELSE s

RECURSIVE StripRight(_)
StripRight(s) ==
  IF s # << >> /\ IsSpace(s[Len(s)]) THEN StripRight(SubSeq(s, 1, Len(s) - 1)) ELSE s

RECURSIVE DigitsValue(_, _)
\* The value of a run of digits and underscores (ASCII digits only).
DigitsValue(s, n) ==
  IF s = << >> THEN n
  ELSE IF s[1] = UNDERSCORE THEN DigitsValue(Tail(s), n)
  ELSE DigitsValue(Tail(s), 10 * n + (s[1] - DIGIT0))

\* int(s): blanks around it stripped, a sign, then digits, with single
\* underscores allowed between digits; not ok is ValueError.
int(s) ==
  LET t == StripRight(StripLeft(s))
      signed == t # << >> /\ t[1] \in {PLUS, MINUS}
      d == IF signed THEN Tail(t) ELSE t
      wellFormed ==
        /\ d # << >>
        /\ IsDigit(d[1]) /\ IsDigit(d[Len(d)])
        /\ \A n \in 1..Len(d) : IsDigit(d[n]) \/ d[n] = UNDERSCORE
        /\ \A n \in 1..(Len(d) - 1) : ~(d[n] = UNDERSCORE /\ d[n + 1] = UNDERSCORE)
  IN IF ~wellFormed THEN [ok |-> FALSE, val |-> 0]
     ELSE [ok |-> TRUE,
           val |-> IF signed /\ t[1] = MINUS THEN 0 - DigitsValue(d, 0)
                   ELSE DigitsValue(d, 0)]

\* The file name test of a scan that looks for another extension.
IsPageFileOtherExtension(filename) ==
  startswith(filename, S_page) /\ endswith(filename, S_png)

\* filename.startswith("page-") and filename.endswith(".webp")
IsPageFile(filename) == startswith(filename, S_page) /\ endswith(filename, S_webp)

\* filename[len("page-") : -len(".webp")]
PageNumStr(filename) == SubSeq(filename, Len(S_page) + 1, Len(filename) - Len(S_webp))

\* The keys list_objects_v2 returns for Prefix=output_prefix, all pages of the
\* listing together.
ListedKeys(objects, output_prefix) ==
  {key \in DOMAIN objects : startswith(key, output_prefix)}

\* existing_pages as the listing loop builds it.
ExistingPages(objects, output_prefix) ==
  {int(PageNumStr(LastSegment(key))).val :
     key \in {k \in ListedKeys(objects, output_prefix) :
                /\ k # << >>
                /\ IsPageFile(LastSegment(k))
                /\ int(PageNumStr(LastSegment(k))).ok}}

\* The test of the loop made on the index i instead of the page number.
ShouldSkipByIndex(page_num, existing) == (page_num - 1) \in existing

\* page_num in existing_pages
ShouldSkip(page_num, existing) == page_num \in existing

\* put_object: the bucket with obj stored under key, replacing what was there.
PutObject(objects, key, obj) ==
  [k \in DOMAIN objects \cup {key} |-> IF k = key THEN obj ELSE objects[k]]

-----------------------------------------------------------------------------
(* The handler as a state machine.  Invocations of one process's handler   *)
(* run against one bucket and one local disk; the hosting runtime may run  *)
(* them one after the other or at the same time.                           *)

\* Bounds of the model.
MaxPages == 2
MaxKeyLen == 2

Inv == {1, 2}

VARIABLES
  args,            \* the harness's arguments the event was built from, if any
  event,           \* the event each invocation is called with
  pc,              \* where each invocation stands
  request,         \* (pdf_key, output_prefix) as parse_event returned it
  tmp_pdf_path,    \* handler's tmp_pdf_path: 0 is None, else the file's name
  page_count,      \* len(doc), -1 before the document is open
  existing_pages,  \* the set built from the listing
  page_index,      \* i of the page loop
  exc,             \* the exception in flight: its class and the step that raised
  response,        \* what handler returns
  log,             \* the logger's lines about the listing, pages, uploads, cleanup
  bucket,          \* the objects of the bucket: key -> object
  disk,            \* the files under /tmp: name -> content
  bucket0,         \* the bucket as it was before the first invocation
  after            \* the invocations that had returned when each one started

vars == <<args, event, pc, request, tmp_pdf_path, page_count, existing_pages, page_index,
          exc, response, log, bucket, disk, bucket0, after>>

NotInvoked == PyList(<< >>)
NoRequest == [pdf_key |-> << >>, output_prefix |-> << >>]
NoException == [cls |-> "none", at |-> "none"]
NoResponse == [statusCode |-> 0, status |-> "none", page_count |-> -1]

\* json_response(200, success_payload) and json_response(code, error payload);
\* an error body carries no page_count (-1 here).
SuccessResponse(n) == [statusCode |-> 200, status |-> "success", page_count |-> n]
ErrorResponse(code) == [statusCode |-> code, status |-> "error", page_count |-> -1]

\* The objects of the bucket.
PdfObject(n) == [kind |-> "pdf", n |-> n]
JunkObject == [kind |-> "junk", n |-> 0]
WebpObject(n) == [kind |-> "webp", n |-> n]
ManifestObject(n) == [kind |-> "manifest", n |-> n]

\* The lines of the log.
SkipLine(n) == [op |-> "skip", kind |-> "webp", key |-> << >>, n |-> n]
PutLine(kind, key, n) == [op |-> "put", kind |-> kind, key |-> key, n |-> n]
ListFailedLine == [op |-> "list_failed", kind |-> "webp", key |-> << >>, n |-> 0]
RemoveFailedLine == [op |-> "remove_failed", kind |-> "pdf", key |-> << >>, n |-> 0]

\* The inputs drawn: the source object's key, a key the bucket does not hold,
\* the output prefix the conversions write under, and a deeper prefix under it.
SourceKey == Str(<<"d">>)
MissingKey == Str(<<"D">>)
OutputPrefix == Str(<<"d", "/">>)
DeeperPrefix == Str(<<"d", "/", "d", "/">>)

\* Objects a bucket may hold under the output prefix before a run: page 1 of
\* an earlier run, page 2 of a conversion written under the deeper prefix, and a
\* file whose name holds no number.
EarlierObjects ==
  { <<PageKey(OutputPrefix, 1), WebpObject(1)>>,
    <<PageKey(DeeperPrefix, 2), WebpObject(2)>>,
    <<OutputPrefix \o S_page \o Str(<<"x">>) \o S_webp, JunkObject>> }

BucketOf(source, earlier) ==
  [k \in {SourceKey} \cup {o[1] : o \in earlier} |->
     IF k = SourceKey THEN source ELSE (CHOOSE o \in earlier : o[1] = k)[2]]

\* The characters keys and prefixes are drawn from, and the strings over them.
KeyAlphabet == Str(<<"d", "/", " ", "D", "\"", "\\">>)
RECURSIVE StringsOfLen(_)
StringsOfLen(n) ==
  IF n = 0 THEN {<< >>}
  ELSE {Append(w, KeyAlphabet[c]) : w \in StringsOfLen(n - 1), c \in 1..Len(KeyAlphabet)}
Keys == UNION {StringsOfLen(n) : n \in 1..MaxKeyLen}
Prefixes == {w \o Str(<<"/">>) : w \in UNION {StringsOfLen(n) : n \in 0..(MaxKeyLen - 1)}}

\* The arguments of the harness: none when the event is not built by it.
Args(k, p, h, u) == [pdf_key |-> k, output_prefix |-> p, http_event |-> h, use_base64 |-> u]
NoArgs == Args(<< >>, << >>, FALSE, FALSE)

\* The three shapes of a well-formed event (--base64 requires --http-event).
Shapes == {<<FALSE, FALSE>>, <<TRUE, FALSE>>, <<TRUE, TRUE>>}
WellFormedArgs == {Args(k, p, sh[1], sh[2]) : k \in Keys, p \in Prefixes, sh \in Shapes}

\* An invocation's input: an event the harness builds, or an event as it is.
HarnessInput(a) ==
  [args |-> a, event |-> build_event(a.pdf_key, a.output_prefix, a.http_event, a.use_base64)]
RawInput(e) == [args |-> NoArgs, event |-> e]
NoInput == RawInput(NotInvoked)

BodyEvent(body) == PyDict(<< <<K_body, body>> >>)
Base64Event(body) == PyDict(<< <<K_body, body>>, <<K_isBase64Encoded, PyBool(TRUE)>> >>)
DirectEvent(k, p) == PyDict(<< <<K_pdf_key, k>>, <<K_output_prefix, p>> >>)

\* Events the parser must refuse.
MalformedEvents ==
  { PyNone, PyStr(SourceKey), PyDict(<< >>),
    PyDict(<< <<K_pdf_key, PyStr(SourceKey)>> >>),
    BodyEvent(PyNone), BodyEvent(PyInt(5)), BodyEvent(PyBytes(<<255>>)),
    Base64Event(PyInt(5)), Base64Event(PyStr(Str(<<"A">>))),
    Base64Event(PyStr(Str(<<"/", "w", "=", "=">>))),
    BodyEvent(PyStr(Str(<<"{", "\"", "p", "d", "f">>))),
    BodyEvent(PyStr(Str(<<"[", "]">>))), BodyEvent(PyStr(Str(<<"n", "u", "l", "l">>))),
    BodyEvent(PyStr(Str(<<"5">>))), BodyEvent(PyStr(Str(<<"\"", "d", "\"">>))),
    Base64Event(PyStr(b64encode(Str(<<"[", "1", "]">>)))),
    BodyEvent(PyStr(Str(<<"{", "}">>))),
    BodyEvent(PyStr(json_dumps(PyDict(<< <<K_pdf_key, PyStr(SourceKey)>> >>)))),
    DirectEvent(PyNone, PyStr(OutputPrefix)), DirectEvent(PyStr(<< >>), PyStr(OutputPrefix)),
    DirectEvent(PyStr(SourceKey), PyInt(5)), DirectEvent(PyStr(SourceKey), PyStr(<< >>)),
    DirectEvent(PyStr(SourceKey), PyStr(SourceKey)),
    BodyEvent(PyStr(json_dumps(DirectEvent(PyStr(SourceKey), PyStr(SourceKey))))),
    Base64Event(PyStr(b64encode(json_dumps(DirectEvent(PyStr(SourceKey), PyStr(Str(<<"d", "/", " ">>))))))) }

ParseInputs ==
  {HarnessInput(a) : a \in WellFormedArgs} \cup {RawInput(e) : e \in MalformedEvents}

\* The inputs of the runs that share one source and one prefix.
PipelineInputs ==
  { HarnessInput(Args(SourceKey, OutputPrefix, FALSE, FALSE)),
    HarnessInput(Args(SourceKey, OutputPrefix, TRUE, TRUE)),
    HarnessInput(Args(MissingKey, OutputPrefix, TRUE, FALSE)),
    RawInput(BodyEvent(PyStr(Str(<<"[", "]">>)))) }

SourceObjects == {PdfObject(n) : n \in 0..MaxPages} \cup {JunkObject}

Invoked(inputs) ==
  /\ args = [i \in Inv |-> inputs[i].args]
  /\ event = [i \in Inv |-> inputs[i].event]

\* One invocation on any input, the bucket holding a one-page source.
InitOne ==
  /\ \E x \in ParseInputs : Invoked([i \in Inv |-> IF i = 1 THEN x ELSE NoInput])
  /\ bucket = BucketOf(PdfObject(1), {})

\* Two invocations for one prefix, on any source and any earlier objects.
InitTwo ==
  /\ \E inputs \in [Inv -> PipelineInputs] : Invoked(inputs)
  /\ bucket \in {BucketOf(src, e) : src \in SourceObjects, e \in SUBSET EarlierObjects}

Init ==
  /\ InitOne \/ InitTwo
  /\ bucket0 = bucket
  /\ pc = [i \in Inv |-> "idle"]
  /\ request = [i \in Inv |-> NoRequest]
  /\ tmp_pdf_path = [i \in Inv |-> 0]
  /\ page_count = [i \in Inv |-> -1]
  /\ existing_pages = [i \in Inv |-> {}]
  /\ page_index = [i \in Inv |-> 0]
  /\ exc = [i \in Inv |-> NoException]
  /\ response = [i \in Inv |-> NoResponse]
  /\ log = [i \in Inv |-> << >>]
  /\ disk = << >>
  /\ after = [i \in Inv |-> {}]

-----------------------------------------------------------------------------
(* The steps of handler.                                                   *)

\* An exception of class cls leaves the try block from step at.
Raise(i, cls, at) ==
  /\ exc' = [exc EXCEPT ![i] = [cls |-> cls, at |-> at]]
  /\ pc' = [pc EXCEPT ![i] = "except"]

Log(i, line) == log' = [log EXCEPT ![i] = Append(@, line)]

\* What follows parse_event: its exception leaves the try block, or the pair
\* it returned is kept.
AfterParse(i, r) ==
  IF r.exc # "none"
    THEN /\ Raise(i, r.exc, "parse")
         /\ UNCHANGED request
    ELSE /\ request' = [request EXCEPT ![i] =
                          [pdf_key |-> r.pdf_key, output_prefix |-> r.output_prefix]]
         /\ pc' = [pc EXCEPT ![i] = "download"]
         /\ UNCHANGED exc

\* handler up to the download: parse_event, get_bucket_name, get_s3_client.
\* S3_BUCKET_NAME is set in every process that has a handler (the module reads
\* it as it is loaded), so get_bucket_name returns.
ParseStep(i) ==
  /\ pc[i] = "idle"
  /\ event[i] # NotInvoked
  /\ after' = [after EXCEPT ![i] = {j \in Inv : pc[j] = "done"}]
  /\ AfterParse(i, parse_event(event[i]))
  /\ UNCHANGED <<args, event, tmp_pdf_path, page_count, existing_pages, page_index,
                 response, log, bucket, disk, bucket0>>

\* download_pdf_to_tmp: the object is missing (the ClientError becomes
\* FileNotFoundError), the store faults otherwise, or the file is written under
\* a fresh name (download_file leaves no file behind when it fails).
Download(i) ==
  /\ pc[i] = "download"
  /\ \/ /\ request[i].pdf_key \notin DOMAIN bucket
        /\ Raise(i, "FileNotFoundError", "download")
        /\ UNCHANGED <<tmp_pdf_path, disk>>
     \/ /\ Raise(i, "ClientError", "download")
        /\ UNCHANGED <<tmp_pdf_path, disk>>
     \/ /\ request[i].pdf_key \in DOMAIN bucket
        /\ disk' = PutObject(disk, i, bucket[request[i].pdf_key])
        /\ tmp_pdf_path' = [tmp_pdf_path EXCEPT ![i] = i]
        /\ pc' = [pc EXCEPT ![i] = "open"]
        /\ UNCHANGED exc
  /\ UNCHANGED <<args, event, request, page_count, existing_pages, page_index,
                 response, log, bucket, bucket0, after>>

\* pdfium.PdfDocument(local_pdf_path) and len(doc).
OpenPdf(i) ==
  /\ pc[i] = "open"
  /\ LET file == disk[tmp_pdf_path[i]] IN
     IF file.kind = "pdf"
       THEN /\ page_count' = [page_count EXCEPT ![i] = file.n]
            /\ pc' = [pc EXCEPT ![i] = "list"]
            /\ UNCHANGED exc
       ELSE /\ Raise(i, "PdfiumError", "open")
            /\ UNCHANGED page_count
  /\ UNCHANGED <<args, event, request, tmp_pdf_path, existing_pages, page_index,
                 response, log, bucket, disk, bucket0, after>>

\* A listing fault that is logged and then ignored: the loop starts with
\* no page known to exist.
OnListFaultSwallowed(i) ==
  /\ Log(i, ListFailedLine)
  /\ existing_pages' = [existing_pages EXCEPT ![i] = {}]
  /\ page_index' = [page_index EXCEPT ![i] = 0]
  /\ pc' = [pc EXCEPT ![i] = "loop"]
  /\ UNCHANGED exc

\* except ClientError around the listing: logged and raised again.
OnListFault(i) ==
  /\ Log(i, ListFailedLine)
  /\ Raise(i, "ClientError", "list")
  /\ UNCHANGED <<existing_pages, page_index>>

\* The listing of the output prefix.
ListExisting(i) ==
  /\ pc[i] = "list"
  /\ \/ OnListFault(i)
     \/ /\ existing_pages' = [existing_pages EXCEPT ![i] =
                                ExistingPages(bucket, request[i].output_prefix)]
        /\ page_index' = [page_index EXCEPT ![i] = 0]
        /\ pc' = [pc EXCEPT ![i] = "loop"]
        /\ UNCHANGED <<exc, log>>
  /\ UNCHANGED <<args, event, request, tmp_pdf_path, page_count, response,
                 bucket, disk, bucket0, after>>

InLoop(i) == pc[i] = "loop" /\ page_index[i] < page_count[i]

\* One turn of the loop over a page that is skipped.
SkipPage(i) ==
  /\ InLoop(i)
  /\ ShouldSkip(page_index[i] + 1, existing_pages[i])
  /\ Log(i, SkipLine(page_index[i] + 1))
  /\ page_index' = [page_index EXCEPT ![i] = @ + 1]
  /\ UNCHANGED <<args, event, pc, request, tmp_pdf_path, page_count, existing_pages,
                 exc, response, bucket, disk, bucket0, after>>

\* One turn of the loop over a page that is rendered, encoded and uploaded.
UploadPage(i) ==
  /\ InLoop(i)
  /\ ~ShouldSkip(page_index[i] + 1, existing_pages[i])
  /\ LET key == PageKey(request[i].output_prefix, page_index[i] + 1) IN
     /\ bucket' = PutObject(bucket, key, WebpObject(page_index[i] + 1))
     /\ Log(i, PutLine("webp", key, page_index[i] + 1))
  /\ page_index' = [page_index EXCEPT ![i] = @ + 1]
  /\ UNCHANGED <<args, event, pc, request, tmp_pdf_path, page_count, existing_pages,
                 exc, response, disk, bucket0, after>>

\* A page that cannot be made is passed over and the loop goes on.
PageFaultContinue(i) ==
  /\ InLoop(i)
  /\ ~ShouldSkip(page_index[i] + 1, existing_pages[i])
  /\ page_index' = [page_index EXCEPT ![i] = @ + 1]
  /\ UNCHANGED <<args, event, pc, request, tmp_pdf_path, page_count, existing_pages,
                 exc, response, log, bucket, disk, bucket0, after>>

\* One turn of the loop in which loading the page, rendering, encoding or the
\* upload raises: the page is closed and the exception leaves the loop.
PageFault(i) ==
  /\ InLoop(i)
  /\ ~ShouldSkip(page_index[i] + 1, existing_pages[i])
  /\ \E at \in {"load", "render", "encode", "upload"} :
       Raise(i, IF at = "upload" THEN "ClientError" ELSE "Exception", at)
  /\ UNCHANGED <<args, event, request, tmp_pdf_path, page_count, existing_pages,
                 page_index, response, log, bucket, disk, bucket0, after>>

\* The loop is over: the document is closed and page_count returned.
ReturnPageCount(i) ==
  /\ pc[i] = "loop"
  /\ page_index[i] >= page_count[i]
  /\ pc' = [pc EXCEPT ![i] = "manifest"]
  /\ UNCHANGED <<args, event, request, tmp_pdf_path, page_count, existing_pages,
                 page_index, exc, response, log, bucket, disk, bucket0, after>>

\* upload_manifest and, when it returns, the success response.
UploadManifest(i) ==
  /\ pc[i] = "manifest"
  /\ \/ /\ Raise(i, "ClientError", "manifest")
        /\ UNCHANGED <<response, log, bucket>>
     \/ LET key == ManifestKey(request[i].output_prefix) IN
        /\ bucket' = PutObject(bucket, key, ManifestObject(page_count[i]))
        /\ Log(i, PutLine("manifest", key, page_count[i]))
        /\ response' = [response EXCEPT ![i] = SuccessResponse(page_count[i])]
        /\ pc' = [pc EXCEPT ![i] = "finally"]
        /\ UNCHANGED exc
  /\ UNCHANGED <<args, event, request, tmp_pdf_path, page_count, existing_pages,
                 page_index, disk, bucket0, after>>

\* The except clauses with the one for FileNotFoundError left out.
ExceptStatusWithoutNotFound(cls) ==
  CASE cls = "BadRequest" -> 400
    [] OTHER -> 500

\* The status code of the except clause that catches an exception of class cls.
ExceptStatus(cls) ==
  CASE cls = "BadRequest" -> 400
    [] cls = "FileNotFoundError" -> 404
    [] cls = "ClientError" -> 500
    [] OTHER -> 500

\* The except clauses of handler.
Except(i) ==
  /\ pc[i] = "except"
  /\ response' = [response EXCEPT ![i] = ErrorResponse(ExceptStatus(exc[i].cls))]
  /\ pc' = [pc EXCEPT ![i] = "finally"]
  /\ UNCHANGED <<args, event, request, tmp_pdf_path, page_count, existing_pages,
                 page_index, exc, log, bucket, disk, bucket0, after>>

\* The test of the finally clause with the existence check turned around.
CleanupNeededInverted(path, files) == path # 0 /\ path \notin DOMAIN files

\* tmp_pdf_path and os.path.exists(tmp_pdf_path)
CleanupNeeded(path, files) == path # 0 /\ path \in DOMAIN files

\* The finally clause: os.remove, whose failure is logged and goes no further.
Finally(i) ==
  /\ pc[i] = "finally"
  /\ IF CleanupNeeded(tmp_pdf_path[i], disk)
       THEN \/ /\ disk' = [f \in DOMAIN disk \ {tmp_pdf_path[i]} |-> disk[f]]
               /\ UNCHANGED log
            \/ /\ Log(i, RemoveFailedLine)
               /\ UNCHANGED disk
       ELSE UNCHANGED <<disk, log>>
  /\ pc' = [pc EXCEPT ![i] = "done"]
  /\ UNCHANGED <<args, event, request, tmp_pdf_path, page_count, existing_pages,
                 page_index, exc, response, bucket, bucket0, after>>

Next ==
  \E i \in Inv :
    \/ ParseStep(i)
    \/ Download(i)
    \/ OpenPdf(i)
    \/ ListExisting(i)
    \/ SkipPage(i)
    \/ UploadPage(i)
    \/ PageFault(i)
    \/ ReturnPageCount(i)
    \/ UploadManifest(i)
    \/ Except(i)
    \/ Finally(i)

Spec == Init /\ [][Next]_vars

-----------------------------------------------------------------------------
(* The properties checked.                                                 *)

Done(i) == pc[i] = "done"
Succeeded(i) == Done(i) /\ response[i].statusCode = 200

\* The positions of the log of invocation i that record an upload of the kind.
Puts(i, kind) == {n \in 1..Len(log[i]) : log[i][n].op = "put" /\ log[i][n].kind = kind}
NoPuts(i) == Puts(i, "webp") = {} /\ Puts(i, "manifest") = {}

\* The page numbers and the keys invocation i uploaded pages for.
PagesPut(i) == {log[i][n].n : n \in Puts(i, "webp")}
PageKeysPut(i) == {log[i][n].key : n \in Puts(i, "webp")}

\* The positions of the log about a page, skipped or uploaded.
PageLines(i) == {n \in 1..Len(log[i]) : log[i][n].op = "skip" \/ n \in Puts(i, "webp")}

\* The bucket holds every page of 1..n under the prefix, and a manifest of n.
Converted(output_prefix, n) ==
  /\ \A N \in 1..n : PageKey(output_prefix, N) \in DOMAIN bucket
  /\ ManifestKey(output_prefix) \in DOMAIN bucket
  /\ bucket[ManifestKey(output_prefix)] = ManifestObject(n)

\* Invocations i and j run at the same time: neither had returned when the
\* other started.
Concurrent(i, j) == i # j /\ pc[i] # "idle" /\ pc[j] # "idle" /\ i \notin after[j] /\ j \notin after[i]

\* C1: after an invocation that returns 200 for a P-page PDF, whatever the
\* bucket held under the prefix before, <output_prefix>page-<N>.webp exists for
\* every N in 1..P and the manifest holds page_count = P.
C1_PagesAndManifestExist ==
  \A i \in Inv :
    Succeeded(i) =>
      /\ response[i].page_count = page_count[i]
      /\ Converted(request[i].output_prefix, page_count[i])

\* C2: a run without fault on a P-page PDF whose existing page set is E uploads
\* exactly the pages of (1..P) \ E, each once and under its own key, and exactly
\* one manifest, with page_count = P.
C2_ExactUploads ==
  \A i \in Inv :
    Succeeded(i) =>
      /\ PagesPut(i) = (1..page_count[i]) \ existing_pages[i]
      /\ Cardinality(Puts(i, "webp")) = Cardinality(PagesPut(i))
      /\ \A n \in Puts(i, "webp") :
           /\ log[i][n].key = PageKey(request[i].output_prefix, log[i][n].n)
           /\ log[i][n].key \in DOMAIN bucket
      /\ Cardinality(Puts(i, "manifest")) = 1
      /\ \A n \in Puts(i, "manifest") :
           /\ log[i][n].n = page_count[i]
           /\ log[i][n].key = ManifestKey(request[i].output_prefix)
           /\ log[i][n].key \in DOMAIN bucket

\* A run on a two-page PDF that found page 1, uploaded page 2 and the manifest.
C2_Witness ==
  \E i \in Inv :
    /\ Succeeded(i)
    /\ page_count[i] = 2
    /\ existing_pages[i] = {1}
    /\ PagesPut(i) = {2}

\* C3: of two runs in sequence for the same (pdf_key, output_prefix), the
\* second uploads no page that was under the prefix when it started (there
\* before the first run, or stored by the first run, whether that one
\* succeeded or failed part-way), and when both succeed both upload the
\* manifest with the same page_count.
C3_Idempotence ==
  \A i, j \in Inv :
    (i \in after[j] /\ request[j] # NoRequest /\ request[i] = request[j]) =>
      /\ PageKeysPut(j) \cap (PageKeysPut(i) \cup DOMAIN bucket0) = {}
      /\ (Succeeded(i) /\ Succeeded(j)) =>
           /\ {log[i][n].n : n \in Puts(i, "manifest")} = {log[j][n].n : n \in Puts(j, "manifest")}
           /\ PagesPut(j) = {}

\* A run that stored page 1 and then failed, followed by a run that succeeded
\* and uploaded page 2 only.
C3_Witness ==
  \E i, j \in Inv :
    /\ i \in after[j]
    /\ request[i] = request[j]
    /\ response[i].statusCode = 500
    /\ PagesPut(i) = {1}
    /\ Succeeded(j)
    /\ PagesPut(j) = {2}

\* C4 as stated: when handler returns, on every exit path, no temporary copy
\* of the source made by the invocation remains on disk.
C4_NoTempFileRemains ==
  \A i \in Inv : Done(i) => tmp_pdf_path[i] \notin DOMAIN disk

\* One return of the finally clause.
C4_CleanupStep ==
  \A i \in Inv :
    (pc[i] = "finally" /\ pc'[i] = "done") =>
      /\ response'[i] = response[i]
      /\ response[i] # NoResponse
      /\ tmp_pdf_path[i] \in DOMAIN disk' =>
           /\ log'[i] = Append(log[i], RemoveFailedLine)
           /\ disk' = disk
      /\ tmp_pdf_path[i] = 0 => exc[i].at \in {"parse", "download"}

\* C4, amended: the finally clause leaves the response as it was, and the
\* temporary copy of the invocation remains after it only when os.remove
\* failed, which is the last line logged; before the download has written the
\* copy there is no file to remove.
C4_CleanupOnEveryPath == [][C4_CleanupStep]_vars

\* An invocation that downloaded the source has returned 200 and its copy is gone.
C4_Witness ==
  \E i \in Inv :
    /\ Succeeded(i)
    /\ tmp_pdf_path[i] # 0
    /\ tmp_pdf_path[i] \notin DOMAIN disk

\* C5: every invocation that returns has one structured response and no fault
\* has escaped: 200 with the page count when no exception was raised, 400 for
\* BadRequest, 404 for the missing source object, 500 for every other exception;
\* no response exists before the try block is left.
C5_ResponseMapping ==
  \A i \in Inv :
    /\ pc[i] \in {"finally", "done"} =>
         response[i] =
           CASE exc[i].cls = "none" -> SuccessResponse(page_count[i])
             [] exc[i].cls = "BadRequest" -> ErrorResponse(400)
             [] exc[i].cls = "FileNotFoundError" -> ErrorResponse(404)
             [] OTHER -> ErrorResponse(500)
    /\ pc[i] \notin {"finally", "done"} => response[i] = NoResponse
    /\ exc[i].cls = "FileNotFoundError" => exc[i].at = "download"
    /\ exc[i].cls = "BadRequest" => exc[i].at = "parse"

\* An invocation whose source object is missing has returned 404.
C5_Witness ==
  \E i \in Inv :
    /\ Done(i)
    /\ exc[i] = [cls |-> "FileNotFoundError", at |-> "download"]
    /\ response[i] = ErrorResponse(404)

\* C6: the event parser returns a pair or fails with BadRequest and with no
\* other exception, so every event it does not accept yields a 400 response.
C6_ParserFailsWithBadRequestOnly ==
  \A i \in Inv :
    exc[i].at = "parse" =>
      /\ exc[i].cls = "BadRequest"
      /\ Done(i) => response[i].statusCode = 400

\* C7: for every non-empty pdf_key and every output_prefix ending in "/", the
\* event the harness builds in each of its three shapes is parsed to exactly
\* that pair, nothing trimmed and no case folded.
C7_RoundTrip ==
  \A i \in Inv :
    (args[i] # NoArgs /\ pc[i] # "idle") =>
      /\ exc[i].at # "parse"
      /\ request[i] = [pdf_key |-> args[i].pdf_key, output_prefix |-> args[i].output_prefix]

\* A base64 envelope whose key holds a blank and a capital, and whose prefix
\* holds a quote, has been parsed to the pair it was built from.
C7_Witness ==
  \E i \in Inv :
    /\ args[i].use_base64
    /\ pc[i] = "download"
    /\ args[i].pdf_key = Str(<<" ", "D">>)
    /\ args[i].output_prefix = Str(<<"\"", "/">>)
    /\ request[i].pdf_key = Str(<<" ", "D">>)
    /\ request[i].output_prefix = Str(<<"\"", "/">>)

\* An invocation failed before the page loop: the parser, the download or the
\* opening of the PDF raised, or the listing failed.
FailedBeforeLoop(i) ==
  \/ exc[i].at \in {"parse", "download", "open"}
  \/ \E n \in 1..Len(log[i]) : log[i][n] = ListFailedLine

\* C8: an invocation that fails before the page loop uploads nothing, neither
\* a page nor the manifest, and leaves the bucket as it was (as far as no other
\* invocation wrote to it).
C8_NoUploadBeforeLoop ==
  \A i \in Inv :
    FailedBeforeLoop(i) =>
      /\ NoPuts(i)
      /\ Done(i) => response[i].statusCode \in {400, 404, 500}
      /\ (\A j \in Inv \ {i} : NoPuts(j)) => bucket = bucket0

\* An invocation whose listing failed has returned 500 and the bucket, which
\* held objects under the prefix, is as it was.
C8_Witness ==
  \E i \in Inv :
    /\ Done(i)
    /\ exc[i].at = "list"
    /\ response[i] = ErrorResponse(500)
    /\ PageKey(OutputPrefix, 1) \in DOMAIN bucket
    /\ bucket = bucket0

\* C9: within an invocation the pages are taken one at a time in ascending
\* order (the k-th line about a page is about page k); the manifest is uploaded
\* last, only after each page of 1..P was skipped or uploaded; 200 is returned
\* only after the manifest was uploaded; an invocation in which a step raised
\* uploads no manifest; every successful one uploads it.
C9_Order ==
  \A i \in Inv :
    /\ \A n \in PageLines(i) : log[i][n].n = Cardinality({m \in PageLines(i) : m <= n})
    /\ \A n \in Puts(i, "manifest") :
         /\ \A m \in PageLines(i) : m < n
         /\ {log[i][m].n : m \in PageLines(i)} = 1..page_count[i]
         /\ log[i][n].n = page_count[i]
    /\ response[i].statusCode = 200 => Cardinality(Puts(i, "manifest")) = 1
    /\ exc[i] # NoException => Puts(i, "manifest") = {}
    /\ Succeeded(i) => Puts(i, "manifest") # {}

\* A successful run on a two-page PDF in which both pages were skipped and the
\* manifest uploaded.
C9_Witness ==
  \E i \in Inv :
    /\ Succeeded(i)
    /\ page_count[i] = 2
    /\ PagesPut(i) = {}
    /\ Cardinality(PageLines(i)) = 2
    /\ Puts(i, "manifest") = {3}

\* C10: when two invocations for the same (pdf_key, output_prefix) and the same
\* source run at the same time and both complete without fault, both return
\* 200 with page_count = P and the bucket holds every page of 1..P and a
\* manifest with page_count = P.
C10_ConcurrentRunsConverge ==
  \A i, j \in Inv :
    (Concurrent(i, j) /\ request[i] = request[j]
       /\ Done(i) /\ Done(j) /\ exc[i] = NoException /\ exc[j] = NoException) =>
      /\ response[i] = SuccessResponse(page_count[i])
      /\ response[j] = SuccessResponse(page_count[i])
      /\ Converted(request[i].output_prefix, page_count[i])

=============================================================================
